---- MODULE Spec2Model ----
(***************************************************************************)
(* Model of the batch orchestrator of syft-unknown-analyzer (src/main.go): *)
(* the paginated catalog iterator, the main loop that submits one task per *)
(* image to a bounded executor, the per-image task with its deferred       *)
(* cleanup and panic recovery, the shared duration map and the final       *)
(* sorted dump.                                                            *)
(*                                                                         *)
(* Strings are sequences of byte values, so that sorting, substring search *)
(* and replacement are computed as the Go code computes them.              *)
(***************************************************************************)
EXTENDS Integers, Sequences, FiniteSets, TLC

\* ------------------------------------------------------------------------
\* Bounds of the model
\* ------------------------------------------------------------------------
MaxNames == 3
MaxPages == 2
MaxStartAt == 1
MaxCount == 2
MaxPar == 2

\* ------------------------------------------------------------------------
\* Strings
\* ------------------------------------------------------------------------
\* ":latest"
TagLatest == <<58, 108, 97, 116, 101, 115, 116>>
\* "unknowns-"
PathPrefix == <<117, 110, 107, 110, 111, 119, 110, 115, 45>>
\* ".csv"
PathSuffix == <<46, 99, 115, 118>>
\* "unable to determine ELF features"
DenySubstring == <<117, 110, 97, 98, 108, 101, 32, 116, 111, 32, 100, 101, 116, 101, 114, 109, 105, 110, 101, 32, 69, 76, 70, 32, 102, 101, 97, 116, 117, 114, 101, 115>>
\* `"IMAGE","FILE","TASK",ERROR"` as the source spells it
HeaderLine == <<34, 73, 77, 65, 71, 69, 34, 44, 34, 70, 73, 76, 69, 34, 44, 34, 84, 65, 83, 75, 34, 44, 69, 82, 82, 79, 82, 34>>
\* ": "
TaskSep == <<58, 32>>

\* strings.Compare(a, b) < 0: bytewise lexicographic order
RECURSIVE StrLess(_, _)
StrLess(a, b) ==
    IF b = << >> THEN FALSE
    ELSE IF a = << >> THEN TRUE
    ELSE IF Head(a) # Head(b) THEN Head(a) < Head(b)
    ELSE StrLess(Tail(a), Tail(b))

\* strings.Contains(s, sub)
Contains(s, sub) ==
    \E k \in 0..(Len(s) - Len(sub)) : SubSeq(s, k + 1, k + Len(sub)) = sub

\* strings.ReplaceAll(s, old, new) for a one-byte old
RECURSIVE ReplaceAll(_, _, _)
ReplaceAll(s, old, new) ==
    IF s = << >> THEN << >>
    ELSE (IF Head(s) = old THEN new ELSE <<Head(s)>>) \o ReplaceAll(Tail(s), old, new)

\* a value written as it is
escapeNothing(value) == value

escapeQuotedCsv(value) == ReplaceAll(value, 34, <<34, 34>>)

\* insertion of x into an ascending sequence, before the first greater element
RECURSIVE InsertSorted(_, _)
InsertSorted(x, s) ==
    IF s = << >> THEN <<x>>
    ELSE IF StrLess(x, Head(s)) THEN <<x>> \o s
    ELSE <<Head(s)>> \o InsertSorted(x, Tail(s))

\* slices.Sort on a slice of strings
RECURSIVE SlicesSort(_)
SlicesSort(s) ==
    IF s = << >> THEN << >> ELSE InsertSorted(Head(s), SlicesSort(Tail(s)))

\* the sequences that list every element of the set S exactly once
Perms(S) ==
    {p \in [1..Cardinality(S) -> S] : \A x \in S : \E k \in DOMAIN p : p[k] = x}

\* ------------------------------------------------------------------------
\* Catalog
\* ------------------------------------------------------------------------
\* the k-th repository name of the remote catalog, in the order the remote API
\* lists them: "b", "aa", "d", "ca", ...; distinct for distinct k, of mixed
\* length, and each odd entry greater than its successor
NameOf(k) ==
    IF k % 2 = 1 THEN <<97 + k>>
    ELSE <<96 + k - 1, 97>>

RefOf(imageName) == imageName \o TagLatest

resultFilePath(ref) == PathPrefix \o ReplaceAll(ref, 58, <<95>>) \o PathSuffix

\* position (1-based) of the first occurrence of sub in s, 0 when there is none
IndexOf(s, sub) ==
    LET hits == {k \in 1..(Len(s) - Len(sub) + 1) : SubSeq(s, k, k + Len(sub) - 1) = sub}
    IN  IF hits = {} THEN 0 ELSE CHOOSE k \in hits : \A h \in hits : k <= h

\* a split at the last occurrence of sep
SplitAtLast(s, sep) ==
    LET hits == {k \in 1..(Len(s) - Len(sep) + 1) : SubSeq(s, k, k + Len(sep) - 1) = sep}
        k == CHOOSE h \in hits : \A x \in hits : x <= h
    IN  IF hits = {} THEN <<s>>
        ELSE <<SubSeq(s, 1, k - 1), SubSeq(s, k + Len(sep), Len(s))>>

\* strings.SplitN(s, sep, 2)
SplitN2(s, sep) ==
    LET k == IndexOf(s, sep)
    IN  IF k = 0 THEN <<s>>
        ELSE <<SubSeq(s, 1, k - 1), SubSeq(s, k + Len(sep), Len(s))>>

\* fmt.Sprintf(`"%s","%s","%s","%s"`, a, b, c, d)
FormatRow(a, b, c, d) ==
    <<34>> \o a \o <<34, 44, 34>> \o b \o <<34, 44, 34>> \o c \o <<34, 44, 34>> \o d \o <<34>>

\* ------------------------------------------------------------------------
\* Scan results: the Unknowns mapping of an SBOM, file.Coordinates -> []string
\* ------------------------------------------------------------------------
\* "/a", "/b"
PathA == <<47, 97>>
PathB == <<47, 98>>
CoordA == [RealPath |-> PathA, FileSystemID |-> 1]
CoordB == [RealPath |-> PathB, FileSystemID |-> 1]

\* "x: unable to determine ELF features"
MsgNoise == <<120, 58, 32>> \o DenySubstring
\* "t: m"
MsgTask == <<116, 58, 32, 109>>
\* `q"`
MsgPlain == <<113, 34>>

\* `a: ,` newline `: "`: the separator twice, a comma, a line break and a quote
MsgTwice == <<97, 58, 32, 44, 10, 58, 32, 34>>

\* "/a" once more, in another layer, and `/c",`
CoordA2 == [RealPath |-> PathA, FileSystemID |-> 2]
PathC == <<47, 99, 34, 44>>
CoordC == [RealPath |-> PathC, FileSystemID |-> 1]

NoUnknowns == [c \in {} |-> << >>]

ScanResults ==
    { NoUnknowns,
      [c \in {CoordA} |-> <<MsgNoise>>],
      [c \in {CoordA, CoordB} |-> IF c = CoordA THEN <<MsgNoise>> ELSE <<MsgNoise, MsgTask>>] }

\* a filter that stops after the first message it drops
filterErrsFirstOnly(errs) ==
    LET hits == {k \in DOMAIN errs : Contains(errs[k], DenySubstring)}
        first == CHOOSE k \in hits : \A h \in hits : k <= h
    IN  IF hits = {} THEN errs
        ELSE SubSeq(errs, 1, first - 1) \o SubSeq(errs, first + 1, Len(errs))

\* lines 194-203
filterErrs(errs) == SelectSeq(errs, LAMBDA err : ~Contains(err, DenySubstring))

\* a filter that stores every filtered list, the empty ones too
filterUnknownsKeepEmpty(unknowns) == [k \in DOMAIN unknowns |-> filterErrs(unknowns[k])]

filterUnknowns(unknowns) ==
    LET kept == {k \in DOMAIN unknowns : Len(filterErrs(unknowns[k])) # 0}
    IN  [k \in kept |-> filterErrs(unknowns[k])]

\* the rows written for one coordinate, lines 114-123
RECURSIVE RowsOf(_, _, _)
RowsOf(ref, coord, errs) ==
    IF errs = << >> THEN << >>
    ELSE LET parts == SplitN2(Head(errs), TaskSep)
             tsk == IF Len(parts) > 1 THEN parts[1] ELSE << >>
             err == IF Len(parts) > 1 THEN parts[2] ELSE Head(errs)
         IN  <<FormatRow(escapeQuotedCsv(ref), escapeQuotedCsv(coord.RealPath),
                         escapeQuotedCsv(tsk), escapeQuotedCsv(err))>>
             \o RowsOf(ref, coord, Tail(errs))

\* the lines written for the sorted keys, lines 112-124
RECURSIVE DataLines(_, _, _)
DataLines(ref, unknownMap, keys) ==
    IF keys = << >> THEN << >>
    ELSE RowsOf(ref, Head(keys), unknownMap[Head(keys)]) \o DataLines(ref, unknownMap, Tail(keys))

ReportLines(ref, unknownMap, keys) == <<HeaderLine>> \o DataLines(ref, unknownMap, keys)

\* maps.Keys left as the map iteration gave it
UnsortedKeys(unknownMap) == Perms(DOMAIN unknownMap)

\* the orders slices.SortFunc may leave maps.Keys in: every listing of the keys
\* in which the real paths never descend
SortedKeys(unknownMap) ==
    {p \in Perms(DOMAIN unknownMap) :
        \A a, b \in DOMAIN p : a < b => ~StrLess(p[b].RealPath, p[a].RealPath)}

\* ------------------------------------------------------------------------
\* State
\* ------------------------------------------------------------------------
VARIABLES
    startAt,      \* main: startAt
    count,        \* main: count
    parallelism,  \* main: parallelism
    providers,    \* main: providers
    mainPc,       \* where the main goroutine is: "range", "wait", "summary", "completed"
    itPc,         \* where sourcesIterator is: "fetch", "yield", "returned"
    next,         \* sourcesIterator: next, 0 for the empty string, else a page cursor
    sources,      \* sourcesIterator: the part of the current page still to be yielded
    idx,          \* sourcesIterator: idx
    fetched,      \* number of calls of getImageList so far
    fetchFailed,  \* whether the last answer of the remote API was a failure
    emitted,      \* the <<idx, imageName>> pairs yielded so far, in order
    submitted,    \* the idx of every executor.Execute call so far, in order
    queue,        \* executor: submitted tasks no worker has taken yet
    running,      \* executor: tasks that a worker is executing
    tasks,        \* idx -> the state of the task closure submitted for it
    scanTimes,    \* main: scanTimes, ref -> duration
    total,        \* main: total
    fs,           \* the results directory, path -> lines of the file
    dump,         \* the <<ref, duration>> lines printed by the final loop
    exit,         \* "none" while the process lives, else why it died
    filterCall,   \* filterErrs called on its own: its argument and its results
    reportStep    \* lines 87-124 carried out on their own for one mapping, twice

vars == <<startAt, count, parallelism, providers, mainPc, itPc, next, sources, idx,
          fetched, fetchFailed, emitted, submitted, queue, running, tasks, scanTimes, total, fs,
          dump, exit, filterCall, reportStep>>

\* the variables of the two specifications that run one function on its own
unitVars == <<filterCall, reportStep>>

\* their value in the specification of the whole batch
Unused == [pc |-> "unused"]

configVars == <<startAt, count, parallelism, providers>>
iterVars == <<itPc, next, sources, idx, fetched, fetchFailed, emitted>>
execVars == <<queue, running>>

\* file counts a listing may report, and durations a scan may take
FileCounts == {2}
Durations == {7}

\* a report left in the results directory by an earlier run
StaleLines == <<HeaderLine>>

Init ==
    /\ startAt \in 0..MaxStartAt
    /\ count \in 0..MaxCount
    /\ parallelism \in 1..MaxPar
    /\ providers \in {<<"registry">>, <<"docker">>}
    /\ mainPc = "range"
    /\ itPc = "fetch"
    /\ next = 1
    /\ sources = << >>
    /\ idx = 0
    /\ fetched = 0
    /\ fetchFailed = FALSE
    /\ emitted = << >>
    /\ submitted = << >>
    /\ queue = << >>
    /\ running = {}
    /\ tasks = << >>
    /\ scanTimes = << >>
    /\ total = 0
    /\ fs = [p \in {resultFilePath(RefOf(NameOf(1)))} |-> StaleLines]
    /\ dump = << >>
    /\ exit = "none"
    /\ filterCall = Unused
    /\ reportStep = Unused

\* ------------------------------------------------------------------------
\* Catalog pages and the iterator
\* ------------------------------------------------------------------------
\* the number of catalog entries the pages fetched so far have listed; a page
\* is fully yielded (or the iterator has returned) before the next is fetched
Listed == Len(emitted) + Len(sources)

\* what the remote API may answer to the next request: a failure of the
\* request, a body that does not decode, or a page with the next n entries of
\* the catalog in any order and a next cursor (0: absent, null or not a string)
Responses ==
    {[kind |-> k, names |-> << >>, next |-> 0] : k \in {"http error", "bad json", "bad shape"}}
    \cup
    UNION {{[kind |-> "ok", names |-> raw, next |-> n] :
                raw \in Perms({NameOf(k) : k \in (Listed + 1)..(Listed + size)}),
                n \in IF fetched + 1 < MaxPages THEN {0, fetched + 2} ELSE {0}} :
           size \in 0..(MaxNames - Listed)}

\* getImageList dropping the error: a failed page reads as an empty last page
getImageListSwallow(rsp) ==
    IF rsp.kind # "ok"
    THEN [panic |-> FALSE, images |-> << >>, next |-> 0]
    ELSE [panic |-> FALSE, images |-> SlicesSort(rsp.names), next |-> rsp.next]

\* getImageList without slices.Sort: the names as the page listed them
getImageListUnsorted(rsp) ==
    IF rsp.kind # "ok"
    THEN [panic |-> TRUE, images |-> << >>, next |-> 0]
    ELSE [panic |-> FALSE, images |-> rsp.names, next |-> rsp.next]

\* getImageList: panics unless the page was fetched and decoded, else returns
\* the sorted names and the next cursor
getImageList(rsp) ==
    IF rsp.kind # "ok"
    THEN [panic |-> TRUE, images |-> << >>, next |-> 0]
    ELSE [panic |-> FALSE, images |-> SlicesSort(rsp.names), next |-> rsp.next]

\* line 176: after the inner loop, return when next is empty, else fetch again
AfterPage(nxt) == IF nxt = 0 THEN "returned" ELSE "fetch"

\* the main goroutine leaves the range loop when the iterator function returns
LoopPc(it) == IF it = "returned" THEN "wait" ELSE "range"

Fetch ==
    /\ exit = "none"
    /\ mainPc = "range"
    /\ itPc = "fetch"
    /\ \E rsp \in Responses :
        LET r == getImageList(rsp) IN
        /\ fetched' = fetched + 1
        /\ fetchFailed' = (rsp.kind # "ok")
        /\ IF r.panic
           THEN /\ exit' = "panic: catalog fetch"
                /\ UNCHANGED <<mainPc, itPc, next, sources>>
           ELSE /\ exit' = exit
                /\ next' = r.next
                /\ sources' = r.images
                /\ itPc' = IF r.images = << >> THEN AfterPage(r.next) ELSE "yield"
                /\ mainPc' = LoopPc(itPc')
    /\ UNCHANGED <<unitVars, configVars, idx, emitted, submitted, execVars, tasks, scanTimes,
                   total, fs, dump>>

\* ------------------------------------------------------------------------
\* The loop body of main and the executor
\* ------------------------------------------------------------------------
NewTask(ref) ==
    [pc |-> "queued", ref |-> ref, src |-> "none", f |-> "none", unknowns |-> NoUnknowns,
     raced |-> FALSE, err |-> "none", finished |-> 0, closes |-> 0]

\* the upper limit compared with > in place of >=
BodyOutcomeOffByOne(i) ==
    IF i < startAt THEN "continue"
    ELSE IF i > startAt + count THEN "break"
    ELSE "execute"

\* lines 61-67: what the loop body does with one yielded pair
BodyOutcome(i) ==
    IF i < startAt THEN "continue"
    ELSE IF i >= startAt + count THEN "break"
    ELSE "execute"

\* a break in place of the return of line 172: only the inner loop is left
YieldPcBreak(out, rest, nxt) ==
    IF out = "break" \/ rest = << >> THEN AfterPage(nxt)
    ELSE "yield"

\* lines 170-178: after the yield function returned: the iterator returns when
\* the loop body broke, else goes on to the next element, the next page or
\* its return
YieldPc(out, rest, nxt) ==
    IF out = "break" THEN "returned"
    ELSE IF rest = << >> THEN AfterPage(nxt)
    ELSE "yield"

\* idx declared inside the page loop: it starts again with every page
IdxPerPage(i, rest) == IF rest = << >> THEN 0 ELSE i + 1

\* line 174
IdxAfterYield(i, rest) == i + 1

\* one call of the yield function: the loop body for Head(sources), then the
\* iterator's own step to the next element, the next page or its return
Yield ==
    /\ exit = "none"
    /\ mainPc = "range"
    /\ itPc = "yield"
    /\ LET imageName == Head(sources)
           ref == RefOf(imageName)
           out == BodyOutcome(idx)
       IN  /\ emitted' = Append(emitted, <<idx, imageName>>)
           /\ IF out = "execute"
              THEN /\ submitted' = Append(submitted, idx)
                   /\ queue' = Append(queue, idx)
                   /\ tasks' = [i \in DOMAIN tasks \cup {idx} |->
                                   IF i = idx THEN NewTask(ref) ELSE tasks[i]]
              ELSE UNCHANGED <<submitted, queue, tasks>>
           /\ IF out = "break"
              THEN UNCHANGED <<idx, sources>>
              ELSE /\ idx' = IdxAfterYield(idx, Tail(sources))
                   /\ sources' = Tail(sources)
           /\ itPc' = YieldPc(out, Tail(sources), next)
           /\ mainPc' = LoopPc(itPc')
    /\ UNCHANGED <<unitVars, configVars, next, fetched, fetchFailed, running, scanTimes, total, fs, dump, exit>>

\* executor: a free worker takes the oldest queued task; the closure starts
WorkerStart ==
    /\ exit = "none"
    /\ queue # << >>
    /\ Cardinality(running) < parallelism
    /\ LET i == Head(queue) IN
        /\ queue' = Tail(queue)
        /\ running' = running \cup {i}
        /\ tasks' = [tasks EXCEPT ![i].pc = "acquire"]
    /\ UNCHANGED <<unitVars, configVars, mainPc, iterVars, submitted, scanTimes, total, fs, dump, exit>>

\* executor: Wait returns when no submitted task is queued or running
ExecutorIdle == queue = << >> /\ running = {}

\* main goes on to the summary without calling executor.Wait
MainWaitSkipped ==
    /\ exit = "none"
    /\ mainPc = "wait"
    /\ mainPc' = "summary"
    /\ UNCHANGED <<unitVars, configVars, iterVars, submitted, execVars, tasks, scanTimes, total,
                   fs, dump, exit>>

\* line 138
MainWait ==
    /\ exit = "none"
    /\ mainPc = "wait"
    /\ ExecutorIdle
    /\ mainPc' = "summary"
    /\ UNCHANGED <<unitVars, configVars, iterVars, submitted, execVars, tasks, scanTimes, total,
                   fs, dump, exit>>

\* ------------------------------------------------------------------------
\* The task closure, lines 67-135
\* ------------------------------------------------------------------------
\* handlePanic without the recover: the panic goes on to the caller
handlePanicNoRecover(panicValue) ==
    [recovered |-> FALSE, printed |-> panicValue]

\* handlePanic: recover() stops a panic in flight and the value is printed
handlePanic(panicValue) ==
    [recovered |-> panicValue # "none", printed |-> panicValue]

\* src.Close() as the last statement of the closure in place of the deferred
\* call: a panic passes it by
TaskReturnCloseAtEnd(i, t, panicValue) ==
    LET r == handlePanic(panicValue)
        closing == t.src = "open" /\ panicValue = "none"
        u == [t EXCEPT !.f = IF t.f = "open" THEN "closed" ELSE t.f,
                       !.src = IF closing THEN "closed" ELSE t.src,
                       !.closes = IF closing THEN t.closes + 1 ELSE t.closes]
    IN  IF panicValue # "none" /\ ~r.recovered
        THEN /\ exit' = "panic: task"
             /\ tasks' = [tasks EXCEPT ![i] = [u EXCEPT !.pc = "panicked"]]
             /\ running' = running
        ELSE /\ exit' = exit
             /\ tasks' = [tasks EXCEPT ![i] = [u EXCEPT !.pc = "done", !.err = r.printed,
                                                        !.finished = t.finished + 1]]
             /\ running' = running \ {i}

\* the closure returns or panics with panicValue: the deferred calls run in
\* reverse order (f.Close, src.Close, handlePanic); t is the task as the
\* step that ends it leaves it; closes counts the calls of src.Close
TaskReturn(i, t, panicValue) ==
    LET r == handlePanic(panicValue)
        u == [t EXCEPT !.f = IF t.f = "open" THEN "closed" ELSE t.f,
                       !.src = IF t.src = "open" THEN "closed" ELSE t.src,
                       !.closes = IF t.src = "open" THEN t.closes + 1 ELSE t.closes]
    IN  IF panicValue # "none" /\ ~r.recovered
        THEN /\ exit' = "panic: task"
             /\ tasks' = [tasks EXCEPT ![i] = [u EXCEPT !.pc = "panicked"]]
             /\ running' = running
        ELSE /\ exit' = exit
             /\ tasks' = [tasks EXCEPT ![i] = [u EXCEPT !.pc = "done", !.err = r.printed,
                                                        !.finished = t.finished + 1]]
             /\ running' = running \ {i}

\* lines 69-77: syft.GetSource, then the file listing and total.Add
Acquire ==
    /\ exit = "none"
    /\ \E i \in running :
        /\ tasks[i].pc = "acquire"
        /\ \/ /\ TaskReturn(i, tasks[i], "GetSource")
              /\ total' = total
           \/ /\ TaskReturn(i, [tasks[i] EXCEPT !.src = "open"], "FilesByGlob")
              /\ total' = total
           \/ /\ \E fileCount \in FileCounts : total' = total + fileCount
              /\ tasks' = [tasks EXCEPT ![i].src = "open", ![i].pc = "scan"]
              /\ UNCHANGED <<running, exit>>
    /\ UNCHANGED <<unitVars, configVars, mainPc, iterVars, submitted, queue, scanTimes, fs, dump>>

\* os.Remove(path)
Remove(files, path) == [p \in DOMAIN files \ {path} |-> files[p]]

\* no return on an empty mapping: the report file is always opened
ReportAlways(unknownMap) == TRUE

\* line 96: a report is written unless the filtered mapping is empty
ReportNeeded(unknownMap) == Cardinality(DOMAIN unknownMap) # 0

\* lines 79-98: syft.CreateSBOM, filterUnknowns, os.Remove, and the return on
\* an empty mapping
Scan ==
    /\ exit = "none"
    /\ \E i \in running :
        /\ tasks[i].pc = "scan"
        /\ \/ /\ TaskReturn(i, tasks[i], "CreateSBOM")
              /\ fs' = fs
           \/ \E unknowns \in ScanResults :
                LET unknownMap == filterUnknowns(unknowns)
                    t == [tasks[i] EXCEPT !.unknowns = unknownMap]
                IN  /\ fs' = Remove(fs, resultFilePath(t.ref))
                    /\ IF ReportNeeded(unknownMap)
                       THEN /\ tasks' = [tasks EXCEPT ![i] = [t EXCEPT !.pc = "report"]]
                            /\ UNCHANGED <<running, exit>>
                       ELSE TaskReturn(i, t, "none")
    /\ UNCHANGED <<unitVars, configVars, mainPc, iterVars, submitted, queue, scanTimes, total, dump>>

\* os.OpenFile(path, O_CREATE|O_RDWR): the file as it is, or a new empty one
OpenFile(files, path) ==
    [p \in DOMAIN files \cup {path} |-> IF p \in DOMAIN files THEN files[p] ELSE << >>]

\* lines 100-124: the file is opened, the keys are sorted, the header and the
\* rows are written; a failing write panics with the lines before it on disk
Report ==
    /\ exit = "none"
    /\ \E i \in running :
        /\ tasks[i].pc = "report"
        /\ LET path == resultFilePath(tasks[i].ref)
               opened == [tasks[i] EXCEPT !.f = "open"]
           IN  \/ /\ TaskReturn(i, tasks[i], "OpenFile")
                  /\ fs' = fs
               \/ \E keys \in SortedKeys(tasks[i].unknowns) :
                    LET lines == ReportLines(tasks[i].ref, tasks[i].unknowns, keys) IN
                    \/ /\ fs' = [OpenFile(fs, path) EXCEPT ![path] = lines]
                       /\ tasks' = [tasks EXCEPT ![i] = [opened EXCEPT !.pc = "record"]]
                       /\ UNCHANGED <<running, exit>>
                    \/ \E k \in 0..(Len(lines) - 1) :
                           /\ fs' = [OpenFile(fs, path) EXCEPT ![path] = SubSeq(lines, 1, k)]
                           /\ TaskReturn(i, opened, "Fprintf")
    /\ UNCHANGED <<unitVars, configVars, mainPc, iterVars, submitted, queue, scanTimes, total, dump>>

\* the tasks that are inside the assignment scanTimes[ref] = scanTime
MapWriters == {j \in running : tasks[j].pc = "mapassign"}

\* lines 126-127, entry of the map assignment. scanTimes is a plain map and no
\* lock is held: when another task is inside the assignment the two writes
\* race, and the runtime may stop the process with "concurrent map writes"
RecordBegin ==
    /\ exit = "none"
    /\ \E i \in running :
        /\ tasks[i].pc = "record"
        /\ IF MapWriters = {}
           THEN /\ tasks' = [tasks EXCEPT ![i].pc = "mapassign"]
                /\ exit' = exit
           ELSE \/ /\ tasks' = [j \in DOMAIN tasks |->
                                   IF j = i THEN [tasks[j] EXCEPT !.pc = "mapassign", !.raced = TRUE]
                                   ELSE IF j \in MapWriters THEN [tasks[j] EXCEPT !.raced = TRUE]
                                   ELSE tasks[j]]
                   /\ exit' = exit
                \/ /\ tasks' = tasks
                   /\ exit' = "fatal error: concurrent map writes"
    /\ UNCHANGED <<unitVars, configVars, mainPc, iterVars, submitted, execVars, scanTimes, total, fs, dump>>

\* scanTimes[ref] = scanTime
MapAssign(m, ref, scanTime) ==
    [r \in DOMAIN m \cup {ref} |-> IF r = ref THEN scanTime ELSE m[r]]

\* lines 128-130 after the assignment: the closure goes on to the cleanup
\* when the first provider is docker and returns otherwise
AfterRecord(i, t) ==
    IF providers[1] = "docker"
    THEN /\ tasks' = [tasks EXCEPT ![i] = [t EXCEPT !.pc = "cleanup"]]
         /\ UNCHANGED <<running, exit>>
    ELSE TaskReturn(i, t, "none")

\* line 127, end of the map assignment: the entry is stored; after a race it
\* may be stored, be lost, or the runtime may stop the process
RecordEnd ==
    /\ exit = "none"
    /\ \E i \in running :
        /\ tasks[i].pc = "mapassign"
        /\ \E scanTime \in Durations :
            \/ /\ scanTimes' = MapAssign(scanTimes, tasks[i].ref, scanTime)
               /\ AfterRecord(i, [tasks[i] EXCEPT !.raced = FALSE])
            \/ /\ tasks[i].raced
               /\ scanTimes' = scanTimes
               /\ AfterRecord(i, [tasks[i] EXCEPT !.raced = FALSE])
            \/ /\ tasks[i].raced
               /\ exit' = "fatal error: concurrent map writes"
               /\ UNCHANGED <<scanTimes, tasks, running>>
    /\ UNCHANGED <<unitVars, configVars, mainPc, iterVars, submitted, queue, total, fs, dump>>

\* lines 130-134: docker image list and docker rmi
Cleanup ==
    /\ exit = "none"
    /\ \E i \in running :
        /\ tasks[i].pc = "cleanup"
        /\ \/ TaskReturn(i, tasks[i], "none")
           \/ TaskReturn(i, tasks[i], "docker")
    /\ UNCHANGED <<unitVars, configVars, mainPc, iterVars, submitted, queue, scanTimes, total, fs, dump>>

\* ------------------------------------------------------------------------
\* The final dump, lines 140-143
\* ------------------------------------------------------------------------
\* sorted without the slices.Sort: the keys in the order the map gave them
sortedNoSort(keys, values) ==
    [k \in 1..Len(keys) |-> <<keys[k], values[keys[k]]>>]

\* sorted: keys is maps.Keys(values), in whatever order the map gives them
sorted(keys, values) ==
    LET ks == SlicesSort(keys)
    IN  [k \in 1..Len(ks) |-> <<ks[k], values[ks[k]]>>]

MainSummary ==
    /\ exit = "none"
    /\ mainPc = "summary"
    /\ \E keys \in Perms(DOMAIN scanTimes) : dump' = sorted(keys, scanTimes)
    /\ mainPc' = "completed"
    /\ UNCHANGED <<unitVars, configVars, iterVars, submitted, execVars, tasks, scanTimes, total, fs, exit>>

\* ------------------------------------------------------------------------
\* Specifications
\* ------------------------------------------------------------------------
Next ==
    \/ Fetch
    \/ Yield
    \/ WorkerStart
    \/ Acquire
    \/ Scan
    \/ Report
    \/ RecordBegin
    \/ RecordEnd
    \/ Cleanup
    \/ MainWait
    \/ MainSummary

Spec == Init /\ [][Next]_vars

\* ------------------------------------------------------------------------
\* filterErrs and the report step of one task, each run on its own over a
\* wider range of scan results than the batch above draws
\* ------------------------------------------------------------------------
\* the most messages one scan result holds
MaxErrs == 3

Messages == {MsgNoise, MsgTask, MsgPlain, MsgTwice}
Coordinates == {CoordA, CoordA2, CoordC}

\* the []string values of at most n messages
ErrLists(n) == UNION {[1..k -> Messages] : k \in 0..n}

\* the Unknowns mappings over the coordinates C holding at most n messages
RECURSIVE UnknownsOver(_, _)
UnknownsOver(C, n) ==
    IF C = {} THEN {NoUnknowns}
    ELSE LET c == CHOOSE x \in C : TRUE
         IN  UnknownsOver(C \ {c}, n)
             \cup UNION {{[k \in DOMAIN m \cup {c} |-> IF k = c THEN l ELSE m[k]] :
                             m \in UnknownsOver(C \ {c}, n - Len(l))} : l \in ErrLists(n)}

\* the batch at rest, while one function runs on its own
BatchAtRest ==
    /\ startAt = 0 /\ count = 0 /\ parallelism = 1 /\ providers = <<"registry">>
    /\ mainPc = "completed" /\ itPc = "returned" /\ next = 0 /\ sources = << >>
    /\ idx = 0 /\ fetched = 0 /\ fetchFailed = FALSE /\ emitted = << >>
    /\ submitted = << >> /\ queue = << >> /\ running = {} /\ tasks = << >>
    /\ scanTimes = << >> /\ total = 0 /\ fs = << >> /\ dump = << >> /\ exit = "none"

batchVars == <<configVars, mainPc, iterVars, submitted, execVars, tasks, scanTimes, total, fs,
               dump, exit>>

\* filterErrs, called on a list and then on its own result
FilterInit ==
    /\ BatchAtRest
    /\ reportStep = Unused
    /\ \E errs \in ErrLists(MaxErrs) : filterCall = [pc |-> "call", errs |-> errs, results |-> << >>]

CallFilterErrs ==
    /\ filterCall.pc = "call"
    /\ LET arg == IF filterCall.results = << >> THEN filterCall.errs
                  ELSE filterCall.results[Len(filterCall.results)]
           results == Append(filterCall.results, filterErrs(arg))
       IN  filterCall' = [filterCall EXCEPT !.results = results,
                                            !.pc = IF Len(results) = 2 THEN "done" ELSE "call"]
    /\ UNCHANGED <<batchVars, reportStep>>

FilterNext == CallFilterErrs

FilterSpec == FilterInit /\ [][FilterNext]_vars

\* lines 87-124 for one scan result: filterUnknowns, then the file if the
\* filtered mapping has entries; run twice on the same scan result
ReportInit ==
    /\ BatchAtRest
    /\ filterCall = Unused
    /\ \E unknowns \in UnknownsOver(Coordinates, MaxErrs) :
           reportStep = [pc |-> "run", ref |-> RefOf(NameOf(1)), unknowns |-> unknowns,
                         runs |-> << >>]

RunReport ==
    /\ reportStep.pc = "run"
    /\ LET unknownMap == filterUnknowns(reportStep.unknowns)
       IN  \E keys \in SortedKeys(unknownMap) :
               LET run == IF ReportNeeded(unknownMap)
                          THEN [unknownMap |-> unknownMap, exists |-> TRUE, keys |-> keys,
                                lines |-> ReportLines(reportStep.ref, unknownMap, keys)]
                          ELSE [unknownMap |-> unknownMap, exists |-> FALSE, keys |-> << >>,
                                lines |-> << >>]
                   runs == Append(reportStep.runs, run)
               IN  reportStep' = [reportStep EXCEPT !.runs = runs,
                                                    !.pc = IF Len(runs) = 2 THEN "done" ELSE "run"]
    /\ UNCHANGED <<batchVars, filterCall>>

ReportNext == RunReport

ReportSpec == ReportInit /\ [][ReportNext]_vars

\* ------------------------------------------------------------------------
\* Properties
\* ------------------------------------------------------------------------
Submitted == {submitted[k] : k \in DOMAIN submitted}
AfterWait == mainPc \in {"summary", "completed"}
InWindow(i) == startAt <= i /\ i < startAt + count
EmittedIdx == [k \in DOMAIN emitted |-> emitted[k][1]]

\* C1: executor.Wait returns only after every submitted task has finished, each
\* exactly once, whether it returned normally or after a recovered panic.
C1_WaitAfterAllTasks ==
    /\ \A i \in DOMAIN tasks : tasks[i].finished <= 1
    /\ DOMAIN tasks = Submitted
    /\ Cardinality(Submitted) = Len(submitted)
    /\ AfterWait =>
          \A i \in Submitted : tasks[i].pc = "done" /\ tasks[i].finished = 1

\* two tasks on one worker, one of them ended by a panic, and Wait has returned
C1_Witness ==
    /\ mainPc = "summary"
    /\ parallelism = 1
    /\ Len(submitted) = 2
    /\ \E i, j \in Submitted : tasks[i].err # "none" /\ tasks[j].err = "none"

\* the step is a panic inside task i
PanicIn(i) ==
    /\ i \in DOMAIN tasks
    /\ tasks[i].pc \notin {"done", "panicked"}
    /\ tasks'[i].pc \in {"done", "panicked"}
    /\ tasks'[i].err # "none" \/ tasks'[i].pc = "panicked"

\* C2: a panic at any step of a task is recovered at the task's boundary: it
\* never reaches the executor or ends the process, the task ends as done and
\* frees its worker, and no other task, queued or running, is touched by it.
C2_PanicContained ==
    /\ [](exit # "panic: task")
    /\ [][\A i \in DOMAIN tasks :
            PanicIn(i) =>
                /\ exit' = exit
                /\ tasks'[i].pc = "done"
                /\ running' = running \ {i}
                /\ queue' = queue
                /\ \A j \in DOMAIN tasks \ {i} : tasks'[j] = tasks[j]]_vars

\* a task that panicked in a write is done, and a task submitted after it was
\* run by the same worker and ended normally
C2_Witness ==
    /\ exit = "none"
    /\ parallelism = 1
    /\ \E i, j \in DOMAIN tasks :
        /\ i < j
        /\ tasks[i].pc = "done" /\ tasks[i].err = "Fprintf"
        /\ tasks[j].pc = "done" /\ tasks[j].err = "none"

\* C3: the writes of the tasks to scanTimes are serialized: no two tasks are
\* inside the map assignment at the same time.
C3_MapWritesSerialized == Cardinality(MapWriters) <= 1

\* C4: a failed fetch or decode of a catalog page ends the whole batch: the
\* process dies of the panic in the range loop, and from then on no item is
\* emitted, no task is submitted, no page is fetched and no summary is printed.
C4_FetchFailureIsFatal ==
    /\ [](fetchFailed => exit = "panic: catalog fetch" /\ mainPc = "range")
    /\ [][fetchFailed => UNCHANGED <<emitted, submitted, fetched, mainPc, dump, tasks>>]_vars

\* the second fetch failed after the first page gave a task that is still running
C4_Witness ==
    /\ fetchFailed
    /\ fetched = 2
    /\ \E i \in Submitted : tasks[i].pc \in {"scan", "report", "record"}

\* the yield function has returned false: the loop body broke
Stopped ==
    /\ emitted # << >>
    /\ emitted[Len(emitted)][1] >= startAt + count

\* C5: once the loop body has broken (idx >= startAt+count), or once a page with
\* an empty next cursor has been fetched, getImageList is not called again.
C5_NoFetchAfterStop ==
    [][(Stopped \/ (fetched > 0 /\ next = 0)) => fetched' = fetched]_vars

\* the loop body broke while the last page had a next cursor, and the batch
\* went on to its end
C5_Witness ==
    /\ Stopped
    /\ next # 0
    /\ mainPc = "completed"

\* C6: the indices emitted are 0, 1, 2, ... in this order, over page boundaries
\* and empty pages: none twice, none skipped.
C6_IndicesConsecutive ==
    \A k \in DOMAIN emitted : emitted[k][1] = k - 1

\* the first two catalog entries were emitted in the order of the catalog,
\* which is not their sorted order: a page boundary lies between them
C6_Witness ==
    /\ Len(emitted) >= 2
    /\ emitted[1] = <<0, NameOf(1)>>
    /\ emitted[2] = <<1, NameOf(2)>>

\* C7: a task whose filtered mapping is empty opens no report file, and when it
\* ends there is no file at its report path.
C7_NoFileForEmptyReport ==
    \A i \in DOMAIN tasks :
        (tasks[i].pc = "done" /\ tasks[i].err = "none" /\ DOMAIN tasks[i].unknowns = {})
            => /\ tasks[i].f = "none"
               /\ resultFilePath(tasks[i].ref) \notin DOMAIN fs

\* the task of the image whose report an earlier run left behind ended with an
\* empty filtered mapping
C7_Witness ==
    \E i \in DOMAIN tasks :
        /\ tasks[i].pc = "done" /\ tasks[i].err = "none" /\ DOMAIN tasks[i].unknowns = {}
        /\ tasks[i].ref = RefOf(NameOf(1))

\* C8: unless a catalog fetch failed, the batch can go on until it is Completed:
\* with every step that can be taken eventually taken, it reaches the summary.
C8_ReachesCompleted ==
    fetchFailed \/ mainPc = "completed" \/ ENABLED Next

\* C9: the tasks submitted are those of the emitted indices i with
\* startAt <= i < startAt+count, each once and in index order; at most count.
C9_SubmittedIsWindow ==
    /\ submitted = SelectSeq(EmittedIdx, InWindow)
    /\ Len(submitted) <= count
    /\ \A i \in DOMAIN tasks :
          \E k \in DOMAIN emitted : emitted[k][1] = i /\ tasks[i].ref = RefOf(emitted[k][2])

\* one item skipped, one submitted, and the loop broken at the third
C9_Witness ==
    /\ startAt = 1
    /\ count = 1
    /\ Len(emitted) = 3
    /\ submitted = <<1>>
    /\ itPc = "returned"

\* C10: the final dump lists every key of scanTimes once, with its duration, in
\* strictly ascending byte order of the keys.
C10_DumpSorted ==
    mainPc = "completed" =>
        /\ Len(dump) = Cardinality(DOMAIN scanTimes)
        /\ {dump[k][1] : k \in DOMAIN dump} = DOMAIN scanTimes
        /\ \A k \in DOMAIN dump : dump[k][2] = scanTimes[dump[k][1]]
        /\ \A k \in 1..(Len(dump) - 1) : StrLess(dump[k][1], dump[k + 1][1])

\* two durations were recorded and the dump lists the later task first
C10_Witness ==
    /\ mainPc = "completed"
    /\ Len(dump) = 2
    /\ \E i, j \in DOMAIN tasks :
          i < j /\ tasks[j].ref = dump[1][1] /\ tasks[i].ref = dump[2][1]


\* ------------------------------------------------------------------------
\* Reading a report back
\* ------------------------------------------------------------------------
\* the bytes of a file that holds these lines, each ended by a line break
RECURSIVE FileBytes(_)
FileBytes(lines) ==
    IF lines = << >> THEN << >> ELSE Head(lines) \o <<10>> \o FileBytes(Tail(lines))

\* A CSV reader. A field that starts with a double quote runs to the next lone
\* double quote, and a doubled double quote in it is one double quote; a comma
\* outside quotes ends a field, a line break outside quotes ends a record.
\*
\* the rest of a field of b from position i on, outside quotes: it runs to the
\* next comma or line break
RECURSIVE ReadBare(_, _, _)
ReadBare(b, i, field) ==
    IF i > Len(b) \/ b[i] \in {44, 10} THEN [field |-> field, end |-> i]
    ELSE ReadBare(b, i + 1, Append(field, b[i]))

\* the rest of a field of b from position i on, inside quotes
RECURSIVE ReadQuoted(_, _, _)
ReadQuoted(b, i, field) ==
    IF i > Len(b) THEN [field |-> field, end |-> i]
    ELSE IF b[i] # 34 THEN ReadQuoted(b, i + 1, Append(field, b[i]))
    ELSE IF i < Len(b) /\ b[i + 1] = 34 THEN ReadQuoted(b, i + 2, Append(field, 34))
    ELSE ReadBare(b, i + 1, field)

\* the field that starts at position s of b, and the position of what ends it
ReadField(b, s) ==
    IF s <= Len(b) /\ b[s] = 34 THEN ReadQuoted(b, s + 1, << >>) ELSE ReadBare(b, s, << >>)

\* the records of b from position s on, after the fields rec of the current one
RECURSIVE CsvRead(_, _, _)
CsvRead(b, s, rec) ==
    IF s > Len(b) THEN IF rec = << >> THEN << >> ELSE <<rec>>
    ELSE LET f == ReadField(b, s)
         IN  IF f.end <= Len(b) /\ b[f.end] = 44
             THEN CsvRead(b, f.end + 1, Append(rec, f.field))
             ELSE <<Append(rec, f.field)>> \o CsvRead(b, f.end + 1, << >>)

ParseCsv(lines) == CsvRead(FileBytes(lines), 1, << >>)

\* the runs of the report step that wrote a file, and the records of its data lines
Runs == IF reportStep.pc = "unused" THEN {} ELSE {reportStep.runs[k] : k \in DOMAIN reportStep.runs}
Written == {run \in Runs : run.exists}
DataRecords(run) == ParseCsv(Tail(run.lines))

\* the (task, message) columns of the records that carry the real path p
RowsAt(run, p) ==
    LET at == SelectSeq(DataRecords(run), LAMBDA r : Len(r) = 4 /\ r[2] = p)
    IN  [k \in DOMAIN at |-> <<at[k][3], at[k][4]>>]

\* the (task, message) pairs of a list of messages
TaskAndMessage(errs) ==
    [k \in DOMAIN errs |-> LET parts == SplitN2(errs[k], TaskSep)
                           IN  IF Len(parts) > 1 THEN <<parts[1], parts[2]>> ELSE << << >>, errs[k]>>]

\* the messages of the listed coordinates, one coordinate after the other
RECURSIVE MessagesOf(_, _)
MessagesOf(unknownMap, keys) ==
    IF keys = << >> THEN << >>
    ELSE unknownMap[Head(keys)] \o MessagesOf(unknownMap, Tail(keys))

\* C11: in every report file the real paths of the data rows never descend
\* from one row to the next, and the rows of one coordinate stand together in
\* the order of that coordinate's surviving messages (coordinates that share
\* a real path follow one another in either order).
C11_RowsOrdered ==
    \A run \in Written :
        LET recs == DataRecords(run)
        IN  /\ \A j, k \in DOMAIN recs : j < k => ~StrLess(recs[k][2], recs[j][2])
            /\ \A c \in DOMAIN run.unknownMap :
                   LET same == {d \in DOMAIN run.unknownMap : d.RealPath = c.RealPath}
                   IN  \E order \in Perms(same) :
                           RowsAt(run, c.RealPath) = TaskAndMessage(MessagesOf(run.unknownMap, order))

\* a report with rows of "/a" and of `/c",`, two of them of one coordinate
C11_Witness ==
    \E run \in Written :
        /\ {CoordA, CoordC} \subseteq DOMAIN run.unknownMap
        /\ Len(run.unknownMap[CoordC]) = 2
        /\ run.unknownMap[CoordC][1] # run.unknownMap[CoordC][2]


\* the positions of xs whose message does not hold the deny-listed substring
KeptAt(xs) == {k \in DOMAIN xs : ~Contains(xs[k], DenySubstring)}

\* C12: filterErrs(xs) is xs without the messages that hold the deny-listed
\* substring, the others in their order, and filterErrs of that result is
\* the result again.
C12_FilterErrsIdempotent ==
    filterCall.pc # "unused" =>
        LET xs == filterCall.errs
            out == filterCall.results
        IN  /\ Len(out) >= 1 =>
                   /\ Len(out[1]) = Cardinality(KeptAt(xs))
                   /\ \A k \in KeptAt(xs) : out[1][Cardinality({j \in KeptAt(xs) : j <= k})] = xs[k]
            /\ Len(out) = 2 => out[2] = out[1]

\* filterErrs was called twice on a list that holds two deny-listed messages
\* around one that stays
C12_Witness ==
    /\ filterCall.pc = "done"
    /\ filterCall.errs = <<MsgNoise, MsgTwice, MsgNoise>>


\* the coordinates of a scan result with a message that survives the filter
Surviving(unknowns) == {c \in DOMAIN unknowns : KeptAt(unknowns[c]) # {}}

\* the number of surviving messages of the coordinates C of a scan result
RECURSIVE SurvivorsOf(_, _)
SurvivorsOf(unknowns, C) ==
    IF C = {} THEN 0
    ELSE LET c == CHOOSE x \in C : TRUE
         IN  Cardinality(KeptAt(unknowns[c])) + SurvivorsOf(unknowns, C \ {c})

\* C13: the mapping filterUnknowns leaves holds exactly the coordinates with
\* a surviving message, none of them with an empty list, and a report has as
\* many rows for a real path as its coordinates have surviving messages: none
\* for a coordinate whose messages were all filtered out.
C13_NoEmptyEntries ==
    \A run \in Runs :
        /\ DOMAIN run.unknownMap = Surviving(reportStep.unknowns)
        /\ \A c \in DOMAIN run.unknownMap : run.unknownMap[c] # << >>
        /\ run.exists =>
               /\ \A k \in DOMAIN DataRecords(run) :
                      LET r == DataRecords(run)[k]
                      IN  Len(r) = 4 /\ r[2] \in {c.RealPath : c \in DOMAIN reportStep.unknowns}
               /\ \A c \in DOMAIN reportStep.unknowns :
                      LET same == {d \in DOMAIN reportStep.unknowns : d.RealPath = c.RealPath}
                      IN  Len(RowsAt(run, c.RealPath)) = SurvivorsOf(reportStep.unknowns, same)

\* a report was written for a scan result in which every message of "/a" in
\* one layer is deny-listed and "/a" in the other layer keeps one
C13_Witness ==
    \E run \in Written :
        /\ CoordA \in DOMAIN reportStep.unknowns
        /\ reportStep.unknowns[CoordA] # << >>
        /\ CoordA \notin DOMAIN run.unknownMap
        /\ CoordA2 \in DOMAIN run.unknownMap


\* the (image, real path, task, message) tuples the row loop is given
RECURSIVE Tuples(_, _, _)
Tuples(ref, unknownMap, keys) ==
    IF keys = << >> THEN << >>
    ELSE LET pairs == TaskAndMessage(unknownMap[Head(keys)])
         IN  [k \in DOMAIN pairs |-> <<ref, Head(keys).RealPath, pairs[k][1], pairs[k][2]>>]
             \o Tuples(ref, unknownMap, Tail(keys))

\* C14: a CSV reader (quoted fields, a doubled double quote for one double
\* quote) gets from the data lines of a report exactly the tuples the row
\* loop wrote, in order, whatever bytes the fields hold.
C14_CsvRoundTrip ==
    \A run \in Written : DataRecords(run) = Tuples(reportStep.ref, run.unknownMap, run.keys)

\* a report with a row whose real path holds a double quote and a comma and
\* whose message holds a comma, a line break and a double quote
C14_Witness ==
    \E run \in Written :
        /\ CoordC \in DOMAIN run.unknownMap
        /\ run.unknownMap[CoordC] = <<MsgTwice, MsgPlain>>


\* `"IMAGE","FILE","TASK","ERROR"`
QuotedHeader ==
    <<34, 73, 77, 65, 71, 69, 34, 44, 34, 70, 73, 76, 69, 34, 44, 34, 84, 65, 83, 75, 34, 44,
      34, 69, 82, 82, 79, 82, 34>>

\* C15: the first line of every report file is the header with its four
\* column names, each in double quotes.
C15_HeaderExact == \A run \in Written : Head(run.lines) = QuotedHeader


\* C16: a task that ended without a failure, its source acquired and
\* scanned, has its duration in scanTimes, whether it wrote rows or found
\* nothing to report.
C16_DurationRecorded ==
    \A i \in DOMAIN tasks :
        tasks[i].pc = "done" /\ tasks[i].err = "none" => tasks[i].ref \in DOMAIN scanTimes

\* C17: a task that ended with its source acquired has called src.Close
\* once, one whose GetSource failed has not called it, and no task calls it
\* before it ends.
C17_SourceClosedOnce ==
    \A i \in DOMAIN tasks :
        LET t == tasks[i]
        IN  /\ t.pc = "done" /\ t.err = "GetSource" => t.src = "none" /\ t.closes = 0
            /\ t.pc = "done" /\ t.err # "GetSource" => t.src = "closed" /\ t.closes = 1
            /\ t.pc \notin {"done", "panicked"} => t.src # "closed" /\ t.closes = 0

\* one task ended by a panic of the scan with its source open, another by a
\* failed GetSource
C17_Witness ==
    \E i, j \in DOMAIN tasks :
        /\ tasks[i].pc = "done" /\ tasks[i].err = "CreateSBOM" /\ tasks[i].closes = 1
        /\ tasks[j].pc = "done" /\ tasks[j].err = "GetSource"


\* C18: two runs of the report step on one scan result write the same lines.
C18_RowsDetermined ==
    reportStep.pc = "done" => reportStep.runs[1].lines = reportStep.runs[2].lines


\* C19: the task and message columns of a row are the parts of the surviving
\* message before and after its first ": ", and a message without ": " is
\* written whole in the message column with an empty task.
C19_SplitAtFirst ==
    \A run \in Written :
        LET recs == DataRecords(run)
            msgs == MessagesOf(run.unknownMap, run.keys)
        IN  /\ Len(recs) = Len(msgs)
            /\ \A k \in DOMAIN msgs :
                   LET tsk == recs[k][3]
                       err == recs[k][4]
                   IN  IF Contains(msgs[k], TaskSep)
                       THEN /\ msgs[k] = tsk \o TaskSep \o err
                            /\ ~Contains(tsk \o <<58>>, TaskSep)
                       ELSE tsk = << >> /\ err = msgs[k]

\* a report with a row for a message that holds ": " twice and a row for one
\* that does not hold it
C19_Witness ==
    \E run \in Written :
        \E c \in DOMAIN run.unknownMap : run.unknownMap[c] = <<MsgTwice, MsgPlain>>


\* C20: the names of a fetched page still to be yielded are always in
\* ascending order, whatever order the page listed them in, and the iterator
\* yields the first of them with the current index: within a page the names
\* are yielded in ascending order. Names of different pages are not ordered
\* against each other.
C20_PageSorted ==
    /\ [](\A k \in 1..(Len(sources) - 1) : StrLess(sources[k], sources[k + 1]))
    /\ [][emitted' # emitted => emitted' = Append(emitted, <<idx, Head(sources)>>)]_vars

\* "aa" and "d" were yielded in this order from the second page, after "b"
\* from the first
C20_Witness ==
    /\ fetched = 2
    /\ emitted = <<<<0, NameOf(1)>>, <<1, NameOf(2)>>, <<2, NameOf(3)>>>>
    /\ StrLess(NameOf(2), NameOf(1))

====
